---------------------------- MODULE Spec2Model ----------------------------
(***************************************************************************)
(* A model of anychain-bitcoin/src/transaction.rs: the VarInt codec, the   *)
(* Outpoint / input construction rules, the wire serializer and decoder,   *)
(* and the operations that mutate a transaction.                           *)
(*                                                                         *)
(* Bytes are naturals 0..255, byte strings are sequences of bytes.         *)
(* Integers wider than 16 bits are sequences of 16-bit limbs, most         *)
(* significant limb first (u32: 2 limbs, u64 / usize / i64 bits: 4 limbs), *)
(* so that 2^32 and 2^64-1 are representable and to_le_bytes /             *)
(* from_le_bytes are real conversions.  usize is taken to be 64 bits wide. *)
(***************************************************************************)
EXTENDS Naturals, Sequences, FiniteSets, TLC

VARIABLES pc, value, wire, dec, tx, args, outp

vars == <<pc, value, wire, dec, tx, args, outp>>

---------------------------------------------------------------------------
(* Generic helpers on sequences *)

Min(a, b) == IF a <= b THEN a ELSE b

Take(s, n) == SubSeq(s, 1, Min(n, Len(s)))

Drop(s, n) == SubSeq(s, Min(n, Len(s)) + 1, Len(s))

Zeros(n) == [i \in 1..n |-> 0]

\* A faulty reversal: the bytes left in the order given
Unreversed(s) == s

Reverse(s) == [i \in 1..Len(s) |-> s[Len(s) + 1 - i]]

RECURSIVE Concat(_)
Concat(ss) == IF ss = <<>> THEN <<>> ELSE Head(ss) \o Concat(Tail(ss))

Last(s) == s[Len(s)]

\* anychain_core::crypto::checksum, imported as double_sha2: SHA-256 applied
\* twice.  Its code is in another crate; it is taken as a fixed function from
\* byte strings to 32 bytes: two sums of the data weighted by position
\* (summed by halves), spread over the bytes of the digest.
RECURSIVE Mix(_, _, _, _)
Mix(data, lo, hi, w) ==
    IF lo > hi THEN w
    ELSE IF lo = hi
      THEN (data[lo] + 1) * ((((lo + w) * (lo + 3 * w)) % 251) + 1)
    ELSE (Mix(data, lo, (lo + hi) \div 2, w)
            + Mix(data, (lo + hi) \div 2 + 1, hi, w)) % 65521

Spread(a, b, n) ==
    [i \in 1..32 |-> ((a \div (1 + (i % 7))) + b * i + n + i * i) % 256]

double_sha2(data) ==
    Spread(Mix(data, 1, Len(data), 1), Mix(data, 1, Len(data), 2), Len(data))

---------------------------------------------------------------------------
(* Integers as limbs, and their little-endian byte forms *)

\* n < 65536 widened to u64 / usize
U64(n) == <<0, 0, 0, n>>

\* n < 65536 widened to u32
U32(n) == <<0, n>>

\* to_le_bytes of an integer given as limbs (most significant limb first)
to_le_bytes(limbs) ==
    Concat([i \in 1..Len(limbs) |->
              LET l == limbs[Len(limbs) + 1 - i] IN <<l % 256, l \div 256>>])

\* from_le_bytes: 2k bytes to k limbs (most significant limb first)
from_le_bytes(b) ==
    [i \in 1..(Len(b) \div 2) |->
        LET j == Len(b) - 2 * i + 1 IN b[j] + 256 * b[j + 1]]

\* `as usize` / `as u64` of a narrower unsigned integer: zero extension
widen(limbs) == Zeros(4 - Len(limbs)) \o limbs

\* a usize small enough to be used as a count (every count the model draws)
AsNat(limbs) == limbs[Len(limbs)]

IsSmall(limbs) == \A i \in 1..(Len(limbs) - 1) : limbs[i] = 0

---------------------------------------------------------------------------
(* Results: Ok(val) with the reader's remaining bytes, Err(kind(name, n)), *)
(* or a panic (process abort).                                             *)

NoErr == [kind |-> "", name |-> "", n |-> <<>>]

Ok(v, r) == [tag |-> "Ok", val |-> v, rest |-> r, err |-> NoErr]

Err(k, nm, num) ==
    [tag |-> "Err", val |-> <<>>, rest |-> <<>>,
     err |-> [kind |-> k, name |-> nm, n |-> num]]

Panic(why) ==
    [tag |-> "Panic", val |-> <<>>, rest |-> <<>>,
     err |-> [kind |-> "panic", name |-> why, n |-> <<>>]]

\* propagate a failure (the ? operator) with the shape of a result
Fail(r) == [tag |-> r.tag, val |-> <<>>, rest |-> <<>>, err |-> r.err]

IsOk(r) == r.tag = "Ok"

\* `let x = v;` : the rest of the function, K, runs with x bound to v
Let(v, K(_)) == K(v)

\* `let x = r?;` : a failure of r is returned, otherwise K runs with r
Bind(r, K(_)) == IF IsOk(r) THEN K(r) ELSE Fail(r)

---------------------------------------------------------------------------
(* The byte reader.  Every call site is `reader.read(&mut buf)?` on a      *)
(* zero-initialised buffer with the returned count dropped; Read for       *)
(* &[u8] copies min(buf.len(), remaining) bytes and returns Ok, so the     *)
(* bytes that are missing stay zero.                                       *)

read(reader, n) ==
    [buf |-> Take(reader, n) \o Zeros(n - Min(n, Len(reader))),
     rest |-> Drop(reader, n)]

---------------------------------------------------------------------------
(* VarInt codec *)

\* A faulty encoder: the one-byte range taken one value too far, so that 253
\* is written as the single byte 0xfd
variable_length_integer_off_by_one(v) ==
    IF v[1] = 0 /\ v[2] = 0 /\ v[3] = 0 /\ v[4] <= 253
      THEN <<v[4] % 256>>
    ELSE IF v[1] = 0 /\ v[2] = 0 /\ v[3] = 0
      THEN <<253>> \o to_le_bytes(<<v[4]>>)
    ELSE IF v[1] = 0 /\ v[2] = 0
      THEN <<254>> \o to_le_bytes(<<v[3], v[4]>>)
    ELSE <<255>> \o to_le_bytes(v)

\* variable_length_integer
variable_length_integer(v) ==
    IF v[1] = 0 /\ v[2] = 0 /\ v[3] = 0 /\ v[4] <= 252
      THEN <<v[4] % 256>>
    ELSE IF v[1] = 0 /\ v[2] = 0 /\ v[3] = 0
      THEN <<253>> \o to_le_bytes(<<v[4]>>)
    ELSE IF v[1] = 0 /\ v[2] = 0
      THEN <<254>> \o to_le_bytes(<<v[3], v[4]>>)
    ELSE <<255>> \o to_le_bytes(v)

\* read_variable_length_integer
read_variable_length_integer(reader) ==
    Let(read(reader, 1), LAMBDA flag :
      IF flag.buf[1] <= 252 THEN Ok(U64(flag.buf[1]), flag.rest)
      ELSE IF flag.buf[1] = 253 THEN
        Let(read(flag.rest, 2), LAMBDA size :
        Let(from_le_bytes(size.buf), LAMBDA s :
          IF s[1] < 253
            THEN Err("InvalidVariableSizeInteger", "", widen(s))
            ELSE Ok(widen(s), size.rest)))
      ELSE IF flag.buf[1] = 254 THEN
        Let(read(flag.rest, 4), LAMBDA size :
        Let(from_le_bytes(size.buf), LAMBDA s :
          IF s[1] = 0
            THEN Err("InvalidVariableSizeInteger", "", widen(s))
            ELSE Ok(widen(s), size.rest)))
      ELSE
        Let(read(flag.rest, 8), LAMBDA size :
        Let(from_le_bytes(size.buf), LAMBDA s :
          IF s[1] = 0 /\ s[2] = 0
            THEN Err("InvalidVariableSizeInteger", "", s)
            ELSE Ok(s, size.rest))))

---------------------------------------------------------------------------
(* Option<T> is a sequence of length at most one *)

None == <<>>

Some(x) == <<x>>

IsSome(o) == Len(o) = 1

---------------------------------------------------------------------------
(* Opcodes and signature hash types *)

OP_DUP == 118

OP_HASH160 == 169

OP_CHECKSIG == 172

OP_EQUAL == 135

OP_EQUALVERIFY == 136

SignatureHashNames ==
    {"SIGHASH_ALL", "SIGHASH_NONE", "SIGHASH_SINGLE",
     "SIGHASH_ALL_SIGHASH_FORKID", "SIGHASH_NONE_SIGHASH_FORKID",
     "SIGHASH_SINGLE_SIGHASH_FORKID",
     "SIGHASH_ALL_SIGHASH_ANYONECANPAY", "SIGHASH_NONE_SIGHASH_ANYONECANPAY",
     "SIGHASH_SINGLE_SIGHASH_ANYONECANPAY",
     "SIGHASH_ALL_SIGHASH_FORKID_SIGHASH_ANYONECANPAY",
     "SIGHASH_NONE_SIGHASH_FORKID_SIGHASH_ANYONECANPAY",
     "SIGHASH_SINGLE_SIGHASH_FORKID_SIGHASH_ANYONECANPAY"}

\* the discriminant of a SignatureHash value (`sighash as u32`)
SignatureHash ==
    [h \in SignatureHashNames |->
      CASE h = "SIGHASH_ALL" -> 1
        [] h = "SIGHASH_NONE" -> 2
        [] h = "SIGHASH_SINGLE" -> 3
        [] h = "SIGHASH_ALL_SIGHASH_FORKID" -> 65
        [] h = "SIGHASH_NONE_SIGHASH_FORKID" -> 66
        [] h = "SIGHASH_SINGLE_SIGHASH_FORKID" -> 67
        [] h = "SIGHASH_ALL_SIGHASH_ANYONECANPAY" -> 129
        [] h = "SIGHASH_NONE_SIGHASH_ANYONECANPAY" -> 130
        [] h = "SIGHASH_SINGLE_SIGHASH_ANYONECANPAY" -> 131
        [] h = "SIGHASH_ALL_SIGHASH_FORKID_SIGHASH_ANYONECANPAY" -> 193
        [] h = "SIGHASH_NONE_SIGHASH_FORKID_SIGHASH_ANYONECANPAY" -> 194
        [] h = "SIGHASH_SINGLE_SIGHASH_FORKID_SIGHASH_ANYONECANPAY" -> 195]

\* SignatureHash::from_byte: the value, or a panic on any other byte
from_byte(byte) ==
    IF \E h \in SignatureHashNames : SignatureHash[h] = byte
      THEN Ok(CHOOSE h \in SignatureHashNames : SignatureHash[h] = byte, <<>>)
      ELSE Panic("Unrecognized signature hash")

---------------------------------------------------------------------------
(* Addresses.  An address is [format, data]: for the Base58Check formats   *)
(* (P2PKH, P2SH_P2WPKH) data is what from_base58 gives for its text        *)
(* (version byte, hash, 4 checksum bytes); for the Bech32 formats (P2WSH,  *)
(* Bech32) data is what bech32::decode gives (witness version, then the    *)
(* program in 5-bit groups).                                               *)

Formats == {"P2PKH", "P2WSH", "P2SH_P2WPKH", "Bech32"}

RECURSIVE BitsOf(_, _)
\* the `width` low bits of n, most significant first
BitsOf(n, width) ==
    IF width = 0 THEN <<>> ELSE BitsOf(n \div 2, width - 1) \o <<n % 2>>

RECURSIVE NatOf(_)
NatOf(bits) ==
    IF bits = <<>> THEN 0
    ELSE 2 * NatOf(SubSeq(bits, 1, Len(bits) - 1)) + bits[Len(bits)]

\* Vec::<u8>::from_base32: 5-bit groups to bytes; the padding must be
\* shorter than one group and zero
from_base32(groups) ==
    Let(Concat([i \in 1..Len(groups) |-> BitsOf(groups[i], 5)]), LAMBDA bits :
    Let(SubSeq(bits, 8 * (Len(bits) \div 8) + 1, Len(bits)), LAMBDA pad :
      IF Len(pad) >= 5 \/ \E i \in 1..Len(pad) : pad[i] # 0
        THEN Err("Bech32Error", "InvalidPadding", <<>>)
        ELSE Ok([i \in 1..(Len(bits) \div 8) |->
                   NatOf(SubSeq(bits, 8 * i - 7, 8 * i))], <<>>)))

\* WitnessProgram::new(..)?.to_scriptpubkey(): the program must be a valid
\* BIP-141 witness program; its scriptPubKey is version opcode, length, program
WitnessProgram_to_scriptpubkey(program_bytes) ==
    Let(program_bytes[1], LAMBDA version :
    Let(SubSeq(program_bytes, 3, Len(program_bytes)), LAMBDA program :
      IF \/ Len(program_bytes) < 4 \/ Len(program_bytes) > 42
         \/ version > 16
         \/ program_bytes[2] # Len(program)
         \/ (version = 0 /\ Len(program) \notin {20, 32})
        THEN Err("WitnessProgramError", "", <<>>)
        ELSE Ok(<<IF version = 0 THEN 0 ELSE 80 + version, Len(program)>>
                  \o program, <<>>)))

\* create_script_pub_key, the P2PKH arm
script_p2pkh(bytes) ==
    IF Len(bytes) < 5 THEN Panic("slice index") ELSE
    Let(SubSeq(bytes, 2, Len(bytes) - 4), LAMBDA pub_key_hash :
      Ok(<<OP_DUP, OP_HASH160>>
           \o variable_length_integer(U64(Len(pub_key_hash)))
           \o pub_key_hash \o <<OP_EQUALVERIFY, OP_CHECKSIG>>, <<>>))

\* create_script_pub_key, the P2WSH arm
script_p2wsh(data) ==
    IF Len(data) < 1 THEN Panic("split_at") ELSE
    Bind(from_base32(Tail(data)), LAMBDA script :
      Ok(<<data[1], Len(script.val) % 256>> \o script.val, <<>>))

\* create_script_pub_key, the P2SH_P2WPKH arm
script_p2sh_p2wpkh(script_bytes) ==
    IF Len(script_bytes) < 5 THEN Panic("slice index") ELSE
    Let(SubSeq(script_bytes, 2, Len(script_bytes) - 4), LAMBDA script_hash :
      Ok(<<OP_HASH160>>
           \o variable_length_integer(U64(Len(script_hash)))
           \o script_hash \o <<OP_EQUAL>>, <<>>))

\* create_script_pub_key, the Bech32 arm
script_bech32(data) ==
    IF Len(data) < 1 THEN Panic("split_at") ELSE
    Bind(from_base32(Tail(data)), LAMBDA program :
      WitnessProgram_to_scriptpubkey(
        <<data[1], Len(program.val) % 256>> \o program.val))

\* create_script_pub_key
create_script_pub_key(address) ==
    CASE address.format = "P2PKH" -> script_p2pkh(address.data)
      [] address.format = "P2WSH" -> script_p2wsh(address.data)
      [] address.format = "P2SH_P2WPKH" -> script_p2sh_p2wpkh(address.data)
      [] address.format = "Bech32" -> script_bech32(address.data)

---------------------------------------------------------------------------
(* Outpoint and input construction *)

\* The scriptPubKey test of Outpoint::new for one format: the `&&` chain of
\* `!=` comparisons, evaluated left to right with short circuit; "true" is
\* the error arm, and indexing past the end panics.
script_pub_key_mismatch(format, script_pub_key) ==
    LET spk == script_pub_key IN
    IF format = "P2PKH" THEN
      IF Len(spk) = 0 THEN "panic"
      ELSE IF spk[1] = OP_DUP THEN "false"
      ELSE IF Len(spk) < 2 THEN "panic"
      ELSE IF spk[2] = OP_HASH160 THEN "false"
      ELSE IF Last(spk) # OP_CHECKSIG THEN "true" ELSE "false"
    ELSE IF format = "P2WSH" THEN
      IF Len(spk) = 0 THEN "panic"
      ELSE IF spk[1] = 0 THEN "false"
      ELSE IF Len(spk) < 2 THEN "panic"
      ELSE IF spk[2] = 32 THEN "false"
      ELSE IF Len(spk) # 34 THEN "true" ELSE "false"
    ELSE IF format = "P2SH_P2WPKH" THEN
      IF Len(spk) = 0 THEN "panic"
      ELSE IF spk[1] = OP_HASH160 THEN "false"
      ELSE IF Last(spk) # OP_EQUAL THEN "true" ELSE "false"
    ELSE "false"

\* A faulty rule: only P2WSH takes a redeem script
redeem_script_expected_p2wsh_only(format) == format = "P2WSH"

\* Which formats take a redeem script (the match arms of Outpoint::new)
redeem_script_expected(format) == format \in {"P2WSH", "P2SH_P2WPKH"}

MkOutpoint(rtxid, index, amount, redeem_script, script_pub_key, address) ==
    [reverse_transaction_id |-> rtxid, index |-> index, amount |-> amount,
     redeem_script |-> redeem_script, script_pub_key |-> script_pub_key,
     address |-> address]

\* Outpoint::new, the arm of an address that is present: the scriptPubKey
\* given or else the derived one, then the checks of the address format
Outpoint_checked(rtxid, index, address, amount, redeem_script, spk) ==
    Let(script_pub_key_mismatch(address[1].format, spk), LAMBDA mismatch :
      IF IsSome(redeem_script) # redeem_script_expected(address[1].format)
        THEN Err("InvalidInputs", address[1].format, <<>>)
      ELSE IF mismatch = "panic" THEN Panic("index out of bounds")
      ELSE IF mismatch = "true"
        THEN Err("InvalidScriptPubKey", address[1].format, <<>>)
      ELSE Ok(MkOutpoint(rtxid, index, amount, redeem_script, Some(spk),
                         address), <<>>))

\* Outpoint::new
Outpoint_new(reverse_transaction_id, index, address, amount, redeem_script, script_pub_key) ==
    IF ~IsSome(address)
      THEN Ok(MkOutpoint(reverse_transaction_id, index, amount, None, None,
                         address), <<>>)
    ELSE
      Bind(create_script_pub_key(address[1]), LAMBDA derived :
        Outpoint_checked(reverse_transaction_id, index, address, amount,
                         redeem_script,
                         IF IsSome(script_pub_key) THEN script_pub_key[1]
                         ELSE derived.val))

DEFAULT_SEQUENCE == <<255, 255, 255, 255>>

MkInput(outpoint, script_sig, sequence, sighash_code, witnesses, is_signed) ==
    [outpoint |-> outpoint, script_sig |-> script_sig, sequence |-> sequence,
     sighash_code |-> sighash_code, witnesses |-> witnesses,
     is_signed |-> is_signed, additional_witness |-> None,
     witness_script_data |-> None]

\* BitcoinTransactionInput::new
BitcoinTransactionInput_new(transaction_id, index, address, amount, redeem_script, script_pub_key) ==
    IF Len(transaction_id) # 32
      THEN Err("InvalidTransactionId", "", U64(Len(transaction_id)))
    ELSE
      Bind(Outpoint_new(Reverse(transaction_id), index, address, amount,
                        redeem_script, script_pub_key), LAMBDA outpoint :
        Ok(MkInput(outpoint.val, <<>>, DEFAULT_SEQUENCE, "SIGHASH_ALL",
                   <<>>, FALSE), <<>>))

\* BitcoinVector::read with the one-byte closure: a VarInt count, then that
\* many bytes, each read on its own (so missing bytes are zero)
BitcoinVector_read_bytes(reader) ==
    Bind(read_variable_length_integer(reader), LAMBDA count :
      IF ~IsSmall(count.val) THEN Panic("capacity overflow")
      ELSE Let(read(count.rest, AsNat(count.val)), LAMBDA r :
             Ok(r.buf, r.rest)))

\* The byte BitcoinTransactionInput::read hands to from_byte: 0x01 for a
\* length of zero, script_sig[length] otherwise (a panic past the end)
sighash_byte_of_script_sig(script_sig, script_sig_len) ==
    IF IsSmall(script_sig_len) /\ AsNat(script_sig_len) = 0 THEN Ok(1, <<>>)
    ELSE IF ~IsSmall(script_sig_len)
            \/ AsNat(script_sig_len) >= Len(script_sig)
      THEN Panic("index out of bounds")
    ELSE Ok(script_sig[AsNat(script_sig_len) + 1], <<>>)

\* BitcoinTransactionInput::read from the sighash code on, with what was read
input_with_sighash(outpoint, script_sig, sequence) ==
    Bind(read_variable_length_integer(script_sig), LAMBDA script_sig_len :
    Bind(sighash_byte_of_script_sig(script_sig, script_sig_len.val),
         LAMBDA byte :
    Bind(from_byte(byte.val), LAMBDA sighash_code :
      Ok(MkInput(outpoint, script_sig, sequence.buf, sighash_code.val, <<>>,
                 script_sig # <<>>), sequence.rest))))

\* BitcoinTransactionInput::read
BitcoinTransactionInput_read(reader) ==
    Let(read(reader, 32), LAMBDA transaction_hash :
    Let(read(transaction_hash.rest, 4), LAMBDA vin :
    Bind(Outpoint_new(transaction_hash.buf, from_le_bytes(vin.buf),
                      None, None, None, None), LAMBDA outpoint :
    Bind(BitcoinVector_read_bytes(vin.rest), LAMBDA script_sig :
      input_with_sighash(outpoint.val, script_sig.val,
                         read(script_sig.rest, 4))))))

\* BitcoinTransactionInput::serialize, the script written between the
\* outpoint and the sequence
serialized_script(input, raw) ==
    IF raw THEN Ok(<<0>>, <<>>)
    ELSE IF Len(input.script_sig) = 0 THEN
      IF IsSome(input.outpoint.address) THEN
        IF input.outpoint.address[1].format \in {"Bech32", "P2WSH"}
          THEN Ok(<<0>>, <<>>)
        ELSE IF ~IsSome(input.outpoint.script_pub_key)
          THEN Err("MissingOutpointScriptPublicKey", "", <<>>)
        ELSE Ok(variable_length_integer(
                  U64(Len(input.outpoint.script_pub_key[1])))
                  \o input.outpoint.script_pub_key[1], <<>>)
      ELSE Ok(<<0>>, <<>>)
    ELSE Ok(variable_length_integer(U64(Len(input.script_sig)))
              \o input.script_sig, <<>>)

\* A faulty serializer: the outpoint index written big-endian
BitcoinTransactionInput_serialize_index_be(input, raw) ==
    Bind(serialized_script(input, raw), LAMBDA script :
      Ok(input.outpoint.reverse_transaction_id
           \o Reverse(to_le_bytes(input.outpoint.index))
           \o script.val \o input.sequence, <<>>))

\* BitcoinTransactionInput::serialize
BitcoinTransactionInput_serialize(input, raw) ==
    Bind(serialized_script(input, raw), LAMBDA script :
      Ok(input.outpoint.reverse_transaction_id
           \o to_le_bytes(input.outpoint.index)
           \o script.val \o input.sequence, <<>>))

---------------------------------------------------------------------------
(* Outputs *)

\* BitcoinAmount::from_satoshi of `u64::from_le_bytes(amount) as i64`: the
\* amount keeps the 64 bits read
BitcoinAmount_from_satoshi(bits) == Ok(bits, <<>>)

\* BitcoinTransactionOutput::read
BitcoinTransactionOutput_read(reader) ==
    Let(read(reader, 8), LAMBDA amount :
    Bind(BitcoinVector_read_bytes(amount.rest), LAMBDA script_pub_key :
    Bind(BitcoinAmount_from_satoshi(from_le_bytes(amount.buf)), LAMBDA a :
      Ok([amount |-> a.val, script_pub_key |-> script_pub_key.val],
         script_pub_key.rest))))

\* BitcoinTransactionOutput::serialize
BitcoinTransactionOutput_serialize(output) ==
    to_le_bytes(output.amount)
      \o variable_length_integer(U64(Len(output.script_pub_key)))
      \o output.script_pub_key

---------------------------------------------------------------------------
(* Transaction parameters: decoding *)

\* count copies of what one read of an exhausted reader gives
Repeated(r, count) == Ok([i \in 1..count |-> r.val], <<>>)

\* an element read, followed by the elements read after it
Cons(r, more) == Ok(<<r.val>> \o more.val, more.rest)

RECURSIVE ReadInputs(_, _)
\* (0..count).map(BitcoinTransactionInput::read).collect(): stops at the
\* first failure
ReadInputs(reader, count) ==
    IF count = 0 THEN Ok(<<>>, reader)
    ELSE IF reader = <<>> THEN
      \* nothing is left to read: every remaining input reads the same zeros
      Bind(BitcoinTransactionInput_read(<<>>), LAMBDA input :
        Repeated(input, count))
    ELSE
      Bind(BitcoinTransactionInput_read(reader), LAMBDA input :
      Bind(ReadInputs(input.rest, count - 1), LAMBDA more :
        Cons(input, more)))

\* BitcoinVector::read(reader, BitcoinTransactionInput::read)
BitcoinVector_read_inputs(reader) ==
    Bind(read_variable_length_integer(reader), LAMBDA count :
      IF ~IsSmall(count.val) THEN Panic("capacity overflow")
      ELSE ReadInputs(count.rest, AsNat(count.val)))

RECURSIVE ReadOutputs(_, _)
ReadOutputs(reader, count) ==
    IF count = 0 THEN Ok(<<>>, reader)
    ELSE IF reader = <<>> THEN
      Bind(BitcoinTransactionOutput_read(<<>>), LAMBDA output :
        Repeated(output, count))
    ELSE
      Bind(BitcoinTransactionOutput_read(reader), LAMBDA output :
      Bind(ReadOutputs(output.rest, count - 1), LAMBDA more :
        Cons(output, more)))

\* BitcoinVector::read(reader, BitcoinTransactionOutput::read)
BitcoinVector_read_outputs(reader) ==
    Bind(read_variable_length_integer(reader), LAMBDA count :
      IF ~IsSmall(count.val) THEN Panic("capacity overflow")
      ELSE ReadOutputs(count.rest, AsNat(count.val)))

\* BitcoinVector::read_witness with the one-byte closure: it reads a VarInt
\* (the size it returns) and then calls BitcoinVector::read, which reads a
\* VarInt count of its own and that many bytes.  The closure of
\* BitcoinTransactionParameters::read makes of the pair
\* [variable_length_integer(size), witness?].concat()
read_witness_item(reader) ==
    Bind(read_variable_length_integer(reader), LAMBDA size :
    Bind(BitcoinVector_read_bytes(size.rest), LAMBDA witness :
      Ok(variable_length_integer(size.val) \o witness.val, witness.rest)))

RECURSIVE ReadWitnessItems(_, _)
ReadWitnessItems(reader, count) ==
    IF count = 0 THEN Ok(<<>>, reader)
    ELSE IF reader = <<>> THEN
      Bind(read_witness_item(<<>>), LAMBDA item : Repeated(item, count))
    ELSE
      Bind(read_witness_item(reader), LAMBDA item :
      Bind(ReadWitnessItems(item.rest, count - 1), LAMBDA more :
        Cons(item, more)))

\* BitcoinVector::read(reader, <the witness item closure>)
BitcoinVector_read_witnesses(reader) ==
    Bind(read_variable_length_integer(reader), LAMBDA count :
      IF ~IsSmall(count.val) THEN Panic("capacity overflow")
      ELSE ReadWitnessItems(count.rest, AsNat(count.val)))

\* The body of `for input in &mut inputs`: a non-empty stack sets
\* sighash_code from the last byte of its first element, and is_signed
input_with_witnesses(input, witnesses) ==
    IF witnesses = <<>> THEN Ok([input EXCEPT !.witnesses = <<>>], <<>>)
    ELSE Bind(from_byte(Last(witnesses[1])), LAMBDA sighash_code :
           Ok([input EXCEPT !.sighash_code = sighash_code.val,
                            !.is_signed = TRUE,
                            !.witnesses = witnesses], <<>>))

RECURSIVE ReadInputWitnesses(_, _)
\* `for input in &mut inputs`: read each input's witnesses in turn
ReadInputWitnesses(reader, inputs) ==
    IF inputs = <<>> THEN Ok(<<>>, reader)
    ELSE IF reader = <<>> THEN
      \* nothing is left to read: every remaining count reads as zero
      Ok([i \in 1..Len(inputs) |-> [inputs[i] EXCEPT !.witnesses = <<>>]],
         <<>>)
    ELSE
      Bind(BitcoinVector_read_witnesses(reader), LAMBDA witnesses :
      Bind(input_with_witnesses(Head(inputs), witnesses.val), LAMBDA input :
      Bind(ReadInputWitnesses(witnesses.rest, Tail(inputs)), LAMBDA more :
        Ok(<<input.val>> \o more.val, more.rest))))

\* A faulty marker test: any non-zero flag byte announces segwit
segwit_marker_any_nonzero(flag) == flag # 0

\* The flag byte that follows an input count of zero: 1 announces segwit
segwit_marker(flag) == flag = 1

\* BitcoinTransactionParameters::read after the inputs: outputs, the
\* witnesses of a segwit transaction, lock_time
read_after_inputs(version, inputs, segwit_flag) ==
    Bind(BitcoinVector_read_outputs(inputs.rest), LAMBDA outputs :
    Bind(IF segwit_flag THEN ReadInputWitnesses(outputs.rest, inputs.val)
         ELSE Ok(inputs.val, outputs.rest), LAMBDA witnessed :
    Let(read(witnessed.rest, 4), LAMBDA lock_time :
      Ok([version |-> from_le_bytes(version.buf), inputs |-> witnessed.val,
          outputs |-> outputs.val,
          lock_time |-> from_le_bytes(lock_time.buf),
          segwit_flag |-> segwit_flag], lock_time.rest))))

\* BitcoinTransactionParameters::read of a transaction whose first input
\* count is zero: the flag byte, then the inputs
read_segwit(version, reader) ==
    Let(read(reader, 1), LAMBDA flag :
      IF ~segwit_marker(flag.buf[1])
        THEN Err("InvalidSegwitFlag", "", U64(flag.buf[1]))
        ELSE Bind(BitcoinVector_read_inputs(flag.rest), LAMBDA inputs :
               read_after_inputs(version, inputs, TRUE)))

\* BitcoinTransactionParameters::read
BitcoinTransactionParameters_read(reader) ==
    Let(read(reader, 4), LAMBDA version :
    Bind(BitcoinVector_read_inputs(version.rest), LAMBDA inputs :
      IF inputs.val = <<>> THEN read_segwit(version, inputs.rest)
      ELSE read_after_inputs(version, inputs, FALSE)))

\* BitcoinTransaction::from_bytes
from_bytes(transaction) == BitcoinTransactionParameters_read(transaction)

---------------------------------------------------------------------------
(* Transaction parameters: encoding *)

\* BitcoinTransactionParameters::new
BitcoinTransactionParameters_new(inputs, outputs) ==
    [version |-> U32(2), inputs |-> inputs, outputs |-> outputs,
     lock_time |-> U32(0), segwit_flag |-> FALSE]

\* The first failure among the serialized inputs, or their concatenation
FirstFailure(each) ==
    IF \E i \in 1..Len(each) : ~IsOk(each[i])
      THEN Fail(each[CHOOSE i \in 1..Len(each) :
                       /\ ~IsOk(each[i])
                       /\ \A j \in 1..(i - 1) : IsOk(each[j])])
      ELSE Ok(Concat([i \in 1..Len(each) |-> each[i].val]), <<>>)

\* `for input in inputs { bytes.extend(input.serialize(raw)?) }` with the
\* raw flag of each position given: the first failure ends the loop
SerializeInputs(inputs, raw) ==
    FirstFailure([i \in 1..Len(inputs) |->
                    BitcoinTransactionInput_serialize(inputs[i], raw[i])])

SerializeOutputs(outputs) ==
    Concat([i \in 1..Len(outputs) |->
              BitcoinTransactionOutput_serialize(outputs[i])])

\* to_bytes serializes an input raw when it is not signed
RawInToBytes(inputs) == [i \in 1..Len(inputs) |-> ~inputs[i].is_signed]

\* to_bytes: has_witness, set by any input with a non-empty witness stack
has_witness(inputs) == \E i \in 1..Len(inputs) : inputs[i].witnesses # <<>>

\* to_bytes: the witness section
SerializeWitnesses(inputs) ==
    Concat([i \in 1..Len(inputs) |->
              IF Len(inputs[i].witnesses) = 0 THEN <<0>>
              ELSE variable_length_integer(U64(Len(inputs[i].witnesses)))
                     \o Concat(inputs[i].witnesses)])

\* BitcoinTransaction::to_bytes
to_bytes(parameters) ==
    Bind(SerializeInputs(parameters.inputs, RawInToBytes(parameters.inputs)),
         LAMBDA inputs :
      Ok(to_le_bytes(parameters.version)
           \o (IF parameters.segwit_flag THEN <<0, 1>> ELSE <<>>)
           \o variable_length_integer(U64(Len(parameters.inputs)))
           \o inputs.val
           \o variable_length_integer(U64(Len(parameters.outputs)))
           \o SerializeOutputs(parameters.outputs)
           \o (IF has_witness(parameters.inputs)
                 THEN SerializeWitnesses(parameters.inputs) ELSE <<>>)
           \o to_le_bytes(parameters.lock_time), <<>>))

---------------------------------------------------------------------------
(* Operations on a transaction.  Each gives the parameters after the call  *)
(* (tx) and what the call returns (ret).                                   *)

\* BitcoinTransactionInput::set_sequence
set_sequence(input, sequence) == [input EXCEPT !.sequence = sequence]

\* BitcoinTransactionInput::set_sighash
set_sighash(input, sighash) == [input EXCEPT !.sighash_code = sighash]

\* BitcoinTransaction::update_outpoint
update_outpoint(parameters, outpoint) ==
    [parameters EXCEPT !.inputs =
        [vin \in 1..Len(parameters.inputs) |->
           IF /\ outpoint.reverse_transaction_id
                   = parameters.inputs[vin].outpoint.reverse_transaction_id
              /\ outpoint.index = parameters.inputs[vin].outpoint.index
             THEN [parameters.inputs[vin] EXCEPT !.outpoint = outpoint]
             ELSE parameters.inputs[vin]]]

\* a call's outcome: the parameters it leaves and what it returns
Outcome(parameters, ret) == [tx |-> parameters, ret |-> ret]

\* BitcoinTransaction::insert_script_pub_key
insert_script_pub_key(parameters, script, index) ==
    Outcome([parameters EXCEPT
               !.inputs[index + 1].outpoint.script_pub_key = Some(script)],
            Ok(<<>>, <<>>))

\* BitcoinTransaction::insert_address: the address is stored, then the script
\* is derived (a failure returns here) and stored
insert_address(parameters, address, index) ==
    IF index + 1 > Len(parameters.inputs)
      THEN Outcome(parameters, Panic("index out of bounds"))
    ELSE
      Let([parameters EXCEPT !.inputs[index + 1].outpoint.address =
                                Some(address)], LAMBDA with_address :
      Let(create_script_pub_key(address), LAMBDA script :
        IF ~IsOk(script) THEN Outcome(with_address, Fail(script))
        ELSE insert_script_pub_key(with_address, script.val, index)))

\* The scriptSig sign_p2pkh builds
p2pkh_script_sig(signature, sighash_code, public_key) ==
    variable_length_integer(U64(Len(signature) + 1))
      \o signature \o <<SignatureHash[sighash_code] % 256>>
      \o <<Len(public_key) % 256>> \o public_key

\* A faulty signing: every input is marked signed
sign_p2pkh_marks_all(parameters, signature, public_key, index) ==
    IF index + 1 > Len(parameters.inputs)
      THEN Outcome(parameters, Panic("index out of bounds"))
    ELSE
      Let([parameters EXCEPT
             !.inputs = [i \in 1..Len(parameters.inputs) |->
                           IF i = index + 1
                             THEN [parameters.inputs[i] EXCEPT
                                     !.script_sig =
                                        p2pkh_script_sig(
                                          signature,
                                          parameters.inputs[i].sighash_code,
                                          public_key),
                                     !.is_signed = TRUE]
                             ELSE [parameters.inputs[i] EXCEPT
                                     !.is_signed = TRUE]]],
          LAMBDA signed : Outcome(signed, to_bytes(signed)))

\* BitcoinTransaction::sign_p2pkh
sign_p2pkh(parameters, signature, public_key, index) ==
    IF index + 1 > Len(parameters.inputs)
      THEN Outcome(parameters, Panic("index out of bounds"))
    ELSE
      Let([parameters EXCEPT
             !.inputs[index + 1].script_sig =
                p2pkh_script_sig(signature,
                                 parameters.inputs[index + 1].sighash_code,
                                 public_key),
             !.inputs[index + 1].is_signed = TRUE], LAMBDA signed :
        Outcome(signed, to_bytes(signed)))

\* A faulty preimage: no input is blanked
RawInPreimage_none(inputs, vin) == [index \in 1..Len(inputs) |-> FALSE]

\* p2pkh_hash_preimage serializes an input raw when it is not the one signed
\* (`index != vin`, indices from 0)
RawInPreimage(inputs, vin) == [index \in 1..Len(inputs) |-> index - 1 # vin]

\* BitcoinTransaction::p2pkh_hash_preimage
p2pkh_hash_preimage(parameters, vin, sighash) ==
    Bind(SerializeInputs(parameters.inputs,
                         RawInPreimage(parameters.inputs, vin)),
         LAMBDA inputs :
      Ok(to_le_bytes(parameters.version)
           \o variable_length_integer(U64(Len(parameters.inputs)))
           \o inputs.val
           \o variable_length_integer(U64(Len(parameters.outputs)))
           \o SerializeOutputs(parameters.outputs)
           \o to_le_bytes(parameters.lock_time)
           \o to_le_bytes(U32(SignatureHash[sighash])), <<>>))

\* BitcoinTransaction::txid_p2pkh
txid_p2pkh(parameters, index) ==
    IF index + 1 > Len(parameters.inputs) THEN Panic("index out of bounds")
    ELSE
      Bind(p2pkh_hash_preimage(parameters, index,
                               parameters.inputs[index + 1].sighash_code),
           LAMBDA preimage : Ok(double_sha2(preimage.val), <<>>))

\* get_inputs, one input: the four sequence bytes are read by index (a
\* panic when there are fewer), then the fields are formatted
get_input(input) ==
    IF Len(input.sequence) < 4 THEN Panic("index out of bounds")
    ELSE Ok([sequence |-> from_le_bytes(Take(input.sequence, 4)),
             txid |-> Reverse(input.outpoint.reverse_transaction_id),
             index |-> input.outpoint.index,
             signature |-> input.script_sig,
             sighash |-> input.sighash_code], <<>>)

\* BitcoinTransaction::get_inputs
get_inputs(parameters) ==
    IF \E i \in 1..Len(parameters.inputs) :
         ~IsOk(get_input(parameters.inputs[i]))
      THEN Panic("index out of bounds")
      ELSE Ok([i \in 1..Len(parameters.inputs) |->
                 get_input(parameters.inputs[i]).val], <<>>)

\* A faulty selection: the scriptPubKey taken whatever the address format
segwit_script_any_format(input) ==
    IF ~IsSome(input.outpoint.address)
      THEN Err("MissingOutpointAddress", "", <<>>)
    ELSE IF ~IsSome(input.outpoint.script_pub_key)
      THEN Err("MissingOutpointScriptPublicKey", "", <<>>)
    ELSE Ok(Tail(input.outpoint.script_pub_key[1]), <<>>)

\* segwit_hash_preimage, the script selected for the input being signed
\* (the match on the outpoint's address format)
segwit_script(input) ==
    IF ~IsSome(input.outpoint.address)
      THEN Err("MissingOutpointAddress", "", <<>>)
    ELSE
      CASE input.outpoint.address[1].format = "Bech32" ->
             IF ~IsSome(input.outpoint.script_pub_key)
               THEN Err("MissingOutpointScriptPublicKey", "", <<>>)
             ELSE IF input.outpoint.script_pub_key[1] = <<>>
               THEN Panic("slice index")
             ELSE Ok(Tail(input.outpoint.script_pub_key[1]), <<>>)
        [] input.outpoint.address[1].format = "P2WSH" ->
             IF ~IsSome(input.outpoint.redeem_script)
               THEN Err("InvalidInputs", "P2WSH", <<>>)
             ELSE Ok(input.outpoint.redeem_script[1], <<>>)
        [] input.outpoint.address[1].format = "P2SH_P2WPKH" ->
             IF ~IsSome(input.outpoint.redeem_script)
               THEN Err("InvalidInputs", "P2SH_P2WPKH", <<>>)
             ELSE IF input.outpoint.redeem_script[1] = <<>>
               THEN Panic("slice index")
             ELSE Ok(Tail(input.outpoint.redeem_script[1]), <<>>)
        [] input.outpoint.address[1].format = "P2PKH" ->
             Err("UnsupportedPreimage", "P2PKH", <<>>)

\* A faulty script code: the P2WSH script wrapped like the others
script_code_always_wrapped(format, script) ==
    <<OP_DUP, OP_HASH160>> \o script \o <<OP_EQUALVERIFY, OP_CHECKSIG>>

\* segwit_hash_preimage: the script code, a P2WSH script as it is and any
\* other wrapped as a pay-to-public-key-hash script
script_code(format, script) ==
    IF format = "P2WSH" THEN script
    ELSE <<OP_DUP, OP_HASH160>> \o script \o <<OP_EQUALVERIFY, OP_CHECKSIG>>

\* segwit_hash_preimage: every input's outpoint, one after the other
prev_outputs(inputs) ==
    Concat([i \in 1..Len(inputs) |->
              inputs[i].outpoint.reverse_transaction_id
                \o to_le_bytes(inputs[i].outpoint.index)])

\* segwit_hash_preimage: every input's sequence, one after the other
prev_sequences(inputs) == Concat([i \in 1..Len(inputs) |-> inputs[i].sequence])

\* segwit_hash_preimage from the length-prefixed script code on: the three
\* hashes, the amount (an error when there is none), the preimage
segwit_preimage_with(parameters, input, script_code_bytes, sighash) ==
    IF ~IsSome(input.outpoint.amount)
      THEN Err("MissingOutpointAmount", "", <<>>)
    ELSE
      Ok(to_le_bytes(parameters.version)
           \o double_sha2(prev_outputs(parameters.inputs))
           \o double_sha2(prev_sequences(parameters.inputs))
           \o input.outpoint.reverse_transaction_id
           \o to_le_bytes(input.outpoint.index)
           \o variable_length_integer(U64(Len(script_code_bytes)))
           \o script_code_bytes
           \o to_le_bytes(input.outpoint.amount[1])
           \o input.sequence
           \o double_sha2(SerializeOutputs(parameters.outputs))
           \o to_le_bytes(parameters.lock_time)
           \o to_le_bytes(U32(SignatureHash[sighash])), <<>>)

\* BitcoinTransaction::segwit_hash_preimage
segwit_hash_preimage(parameters, vin, sighash) ==
    IF vin + 1 > Len(parameters.inputs) THEN Panic("index out of bounds")
    ELSE
      Bind(segwit_script(parameters.inputs[vin + 1]), LAMBDA script :
        segwit_preimage_with(
          parameters, parameters.inputs[vin + 1],
          script_code(parameters.inputs[vin + 1].outpoint.address[1].format,
                      script.val),
          sighash))

\* A faulty serialization for the txid: the full one, witnesses and all
to_transaction_bytes_with_witness(parameters) == to_bytes(parameters)

\* to_transaction_bytes_without_witness serializes every input non-raw
RawInTxid(inputs) == [i \in 1..Len(inputs) |-> FALSE]

\* BitcoinTransaction::to_transaction_bytes_without_witness
to_transaction_bytes_without_witness(parameters) ==
    Bind(SerializeInputs(parameters.inputs, RawInTxid(parameters.inputs)),
         LAMBDA inputs :
      Ok(to_le_bytes(parameters.version)
           \o variable_length_integer(U64(Len(parameters.inputs)))
           \o inputs.val
           \o variable_length_integer(U64(Len(parameters.outputs)))
           \o SerializeOutputs(parameters.outputs)
           \o to_le_bytes(parameters.lock_time), <<>>))

\* BitcoinTransaction::to_transaction_id
to_transaction_id(parameters) ==
    Bind(to_transaction_bytes_without_witness(parameters), LAMBDA plain :
    Bind(to_bytes(parameters), LAMBDA full :
      Ok([txid |-> Reverse(double_sha2(plain.val)),
          wtxid |-> Reverse(double_sha2(full.val))], <<>>)))

---------------------------------------------------------------------------
(* VarInt: the cases drawn, and the specification that applies the codec  *)

\* how many bytes may follow a drawn VarInt in the reader
MaxTail == 1

LimbSamples == {0, 1, 252, 253, 254, 255, 256, 65535}

VarIntValues == {<<a, b, c, d>> : a, b, c, d \in LimbSamples}

VarIntTags == {0, 1, 252, 253, 254, 255}

PayloadSamples == {<<a, b, c, d>> : a, b, c, d \in {0, 1, 253, 65535}}

VarIntWires ==
    {<<>>} \cup
    {<<t>> \o Take(to_le_bytes(v) \o [i \in 1..MaxTail |-> 7], k) :
        t \in VarIntTags, v \in PayloadSamples, k \in 0..(8 + MaxTail)}

InitVarInt ==
    /\ pc \in {"value", "bytes"}
    /\ value \in (IF pc = "value" THEN VarIntValues ELSE {U64(0)})
    /\ wire \in (IF pc = "bytes" THEN VarIntWires ELSE {<<>>})
    /\ dec = Ok(<<>>, <<>>)
    /\ tx = <<>>
    /\ args = <<>>
    /\ outp = <<>>

\* variable_length_integer(value)
VarIntEncode ==
    /\ pc = "value"
    /\ wire' = variable_length_integer(value)
    /\ pc' = "encoded"
    /\ UNCHANGED <<value, dec, tx, args, outp>>

\* read_variable_length_integer on the bytes just encoded
VarIntDecodeEncoded ==
    /\ pc = "encoded"
    /\ dec' = read_variable_length_integer(wire)
    /\ pc' = "roundtrip"
    /\ UNCHANGED <<value, wire, tx, args, outp>>

\* read_variable_length_integer on drawn bytes
VarIntDecode ==
    /\ pc = "bytes"
    /\ dec' = read_variable_length_integer(wire)
    /\ pc' = "decoded"
    /\ UNCHANGED <<value, wire, tx, args, outp>>

NextVarInt == VarIntEncode \/ VarIntDecodeEncoded \/ VarIntDecode

SpecVarInt == InitVarInt /\ [][NextVarInt]_vars

\* The byte b[i] + 256 b[i+1] read as one 16-bit limb
Limb(b, i) == b[i] + 256 * b[i + 1]

\* The width table of the codec, stated on the bytes
WidthTable(v, b) ==
    IF v[1] = 0 /\ v[2] = 0 /\ v[3] = 0 /\ v[4] <= 252
      THEN Len(b) = 1 /\ b[1] = v[4]
    ELSE IF v[1] = 0 /\ v[2] = 0 /\ v[3] = 0
      THEN Len(b) = 3 /\ b[1] = 253 /\ Limb(b, 2) = v[4]
    ELSE IF v[1] = 0 /\ v[2] = 0
      THEN Len(b) = 5 /\ b[1] = 254 /\ Limb(b, 2) = v[4] /\ Limb(b, 4) = v[3]
    ELSE /\ Len(b) = 9 /\ b[1] = 255
         /\ Limb(b, 2) = v[4] /\ Limb(b, 4) = v[3]
         /\ Limb(b, 6) = v[2] /\ Limb(b, 8) = v[1]

\* C1: decoding the encoding of any u64 value gives the value back, and the
\* encoding is 1 byte up to 252, 0xfd + 2 bytes up to 65535, 0xfe + 4 bytes
\* up to 4294967295 and 0xff + 8 bytes above, little-endian.
C1_VarIntRoundTrip ==
    /\ pc \in {"encoded", "roundtrip"} => WidthTable(value, wire)
    /\ pc = "roundtrip" => IsOk(dec) /\ dec.val = value /\ dec.rest = <<>>

C1_Witness ==
    /\ pc = "roundtrip"
    /\ value = <<0, 1, 0, 0>>
    /\ Len(wire) = 9
    /\ dec.val = <<0, 1, 0, 0>>

\* The bytes the decoder consumed from the reader
Consumed == Take(wire, Len(wire) - Len(dec.rest))

\* A tagged value that a smaller width could have carried (the payload read
\* as the decoder reads it)
NonCanonical(b) ==
    /\ Len(b) >= 1
    /\ \/ b[1] = 253 /\ from_le_bytes(read(Tail(b), 2).buf)[1] < 253
       \/ b[1] = 254 /\ from_le_bytes(read(Tail(b), 4).buf)[1] = 0
       \/ b[1] = 255 /\ LET s == from_le_bytes(read(Tail(b), 8).buf)
                        IN  s[1] = 0 /\ s[2] = 0

\* C2: the decoder fails with InvalidVariableSizeInteger whenever a tagged
\* value fits a smaller width and succeeds otherwise, so the byte strings it
\* accepts are exactly the outputs of the encoder.
C2_VarIntCanonical ==
    pc = "decoded" =>
      /\ NonCanonical(wire) =>
           dec.tag = "Err" /\ dec.err.kind = "InvalidVariableSizeInteger"
      /\ ~NonCanonical(wire) => IsOk(dec)
      /\ IsOk(dec) => Consumed = variable_length_integer(dec.val)

\* The canonicality rule alone (what the decoder does keep)
VarIntCanonicalRule ==
    pc = "decoded" =>
      /\ NonCanonical(wire) =>
           dec.tag = "Err" /\ dec.err.kind = "InvalidVariableSizeInteger"
      /\ ~NonCanonical(wire) => IsOk(dec)
      /\ IsOk(dec) /\ Len(wire) >= Len(variable_length_integer(dec.val))
           => Consumed = variable_length_integer(dec.val)

---------------------------------------------------------------------------
(* The values the specifications draw from *)

\* the longest run of inputs, and of outputs, in a drawn transaction
MaxInputs == 2

MaxOutputs == 2

TxidA == [i \in 1..32 |-> i]

TxidB == [i \in 1..32 |-> 160 + i]

Hash20A == [i \in 1..20 |-> 16 + i]

Hash20B == [i \in 1..20 |-> 96 + i]

Hash32 == [i \in 1..32 |-> 64 + i]

\* bytes to 5-bit groups, zero padded (how a Bech32 address carries a program)
to_base32(bytes) ==
    LET bits == Concat([i \in 1..Len(bytes) |-> BitsOf(bytes[i], 8)])
        padded == bits \o Zeros((5 - (Len(bits) % 5)) % 5)
    IN  [i \in 1..(Len(padded) \div 5) |->
           NatOf(SubSeq(padded, 5 * i - 4, 5 * i))]

AddrP2PKH == [format |-> "P2PKH", data |-> <<0>> \o Hash20A \o <<9, 8, 7, 6>>]

AddrP2SH == [format |-> "P2SH_P2WPKH", data |-> <<5>> \o Hash20B \o <<5, 4, 3, 2>>]

AddrBech32 == [format |-> "Bech32", data |-> <<0>> \o to_base32(Hash20A)]

AddrP2WSH == [format |-> "P2WSH", data |-> <<0>> \o to_base32(Hash32)]

Addresses == {AddrP2PKH, AddrP2SH, AddrBech32, AddrP2WSH}

\* a Bech32 address whose version 0 program has 16 bytes: bech32::decode and
\* from_base32 accept it, WitnessProgram::new does not
AddrBech32Short == [format |-> "Bech32", data |-> <<0>> \o to_base32(Take(Hash20A, 16))]

\* two amounts in satoshi
Amount1 == <<0, 0, 154, 7426>>

Amount2 == <<0, 0, 76, 19203>>

\* a redeem script: a push of a 20-byte hash
RedeemScript == <<0, 20>> \o Hash20B

ScriptP2PKH(hash) ==
    <<OP_DUP, OP_HASH160, 20>> \o hash \o <<OP_EQUALVERIFY, OP_CHECKSIG>>

Signature1 == <<48, 170, 187>>

PublicKey1 == <<2, 204>>

\* a public key argument of 256 bytes
PublicKey256 == [i \in 1..256 |-> (i * 7) % 256]

PublicKeys == {PublicKey1, PublicKey256}

\* an input as BitcoinTransactionInput::new builds it
NewInput(txid, index, address, amount, redeem_script, script_pub_key) ==
    BitcoinTransactionInput_new(txid, index, address, amount, redeem_script, script_pub_key).val

\* an input signed the way sign_p2pkh signs it
Signed(input, signature, public_key) ==
    [input EXCEPT
       !.script_sig = p2pkh_script_sig(signature, input.sighash_code, public_key),
       !.is_signed = TRUE]

PlainA == NewInput(TxidA, U32(0), None, None, None, None)

PlainB == NewInput(TxidB, <<1, 513>>, None, None, None, None)

\* the inputs a constructed transaction is made of
InputList ==
    << PlainA,
       PlainB,
       Signed(PlainA, Signature1, PublicKey1),
       Signed(set_sighash(PlainB, "SIGHASH_ALL_SIGHASH_FORKID"), Signature1, PublicKey1),
       set_sighash(PlainA, "SIGHASH_NONE"),
       set_sequence(PlainB, <<254, 255, 255, 255>>),
       NewInput(TxidA, U32(1), Some(AddrP2PKH), Some(Amount1), None, None),
       NewInput(TxidB, U32(0), Some(AddrBech32), Some(Amount1), None, None),
       NewInput(TxidA, U32(2), Some(AddrP2WSH), Some(Amount1), Some(RedeemScript), None),
       NewInput(TxidB, U32(3), Some(AddrP2SH), Some(Amount1), Some(RedeemScript), None),
       MkInput(MkOutpoint(Reverse(TxidA), U32(0), Some(Amount1), None, Some(ScriptP2PKH(Hash20A)), None),
               <<>>, DEFAULT_SEQUENCE, "SIGHASH_ALL_SIGHASH_FORKID", <<>>, FALSE),
       [PlainA EXCEPT !.witnesses = << <<2, 204, 1>>, <<1, 7>> >>, !.is_signed = TRUE],
       [PlainB EXCEPT !.script_sig = <<9, 1>>, !.is_signed = TRUE],
       Signed(PlainA, <<>>, PublicKey1) >>

\* n inputs of the list, from position s on (wrapping round)
InputRun(s, n) ==
    [i \in 1..n |-> InputList[((s + i - 2) % Len(InputList)) + 1]]

OutputList ==
    << [amount |-> Amount2, script_pub_key |-> ScriptP2PKH(Hash20A)],
       [amount |-> Amount1, script_pub_key |-> ScriptP2PKH(Hash20B)],
       [amount |-> U64(0), script_pub_key |-> <<>>] >>

OutputRun(s, n) ==
    [i \in 1..n |-> OutputList[((s + i - 2) % Len(OutputList)) + 1]]

LockTimes == {U32(0), <<258, 772>>}

\* constructed transaction parameters
ParamsSamples ==
    {[BitcoinTransactionParameters_new(InputRun(s, n), OutputRun(t, m))
        EXCEPT !.segwit_flag = f, !.lock_time = lt] :
       s \in 1..Len(InputList), n \in 0..MaxInputs,
       t \in 1..2, m \in 0..MaxOutputs, f \in BOOLEAN, lt \in LockTimes}

\* scriptSig fields as they may stand on the wire
ScriptList ==
    << <<>>,
       <<3, 48, 170, 1, 1, 204>>,
       <<3, 48, 170, 5, 1, 204>>,
       <<9, 1>>,
       <<253, 1, 0>>,
       <<0, 5>>,
       <<2, 48, 65, 1, 204>> >>

WireInput(txid, script) ==
    Reverse(txid) \o <<1, 0, 0, 0>> \o <<Len(script)>> \o script
      \o <<255, 255, 255, 255>>

WireInputRun(s, n) ==
    Concat([i \in 1..n |->
              WireInput(IF i % 2 = 1 THEN TxidA ELSE TxidB,
                        ScriptList[((s + i - 2) % Len(ScriptList)) + 1])])

WireOutput == <<3, 75, 76, 0, 0, 0, 0, 0>> \o <<25>> \o ScriptP2PKH(Hash20A)

\* the marker and flag bytes after the version, if any
Markers == {<<>>, <<0, 1>>, <<0, 2>>, <<0, 0>>}

\* one witness stack per input: none at all, empty stacks, one item as the
\* decoder of this crate takes it, one item as Bitcoin writes it
WitnessSections(n) ==
    { <<>>,
      [i \in 1..n |-> 0],
      Concat([i \in 1..n |-> <<1, 2, 2, 204, 1>>]),
      Concat([i \in 1..n |-> <<1, 2, 204, 1>>]) }

WireSamples ==
    UNION {
      { <<2, 0, 0, 0>> \o mk \o <<n>> \o WireInputRun(s, n)
          \o <<m>> \o Concat([i \in 1..m |-> WireOutput])
          \o w \o <<4, 3, 2, 1>> \o [i \in 1..k |-> 7] :
        mk \in Markers, w \in WitnessSections(n), k \in 0..MaxTail }
      : s \in 1..Len(ScriptList), n \in 0..MaxInputs, m \in 0..1 }

---------------------------------------------------------------------------
(* The codec specification: constructed parameters are encoded, decoded    *)
(* again, or cut short and decoded; drawn byte strings are decoded and     *)
(* encoded again.                                                          *)

InitCodec ==
    /\ pc \in {"params", "wire"}
    /\ tx \in (IF pc = "params" THEN ParamsSamples ELSE {<<>>})
    /\ wire \in (IF pc = "wire" THEN WireSamples ELSE {<<>>})
    /\ value = U64(0)
    /\ dec = Ok(<<>>, <<>>)
    /\ args = <<>>
    /\ outp = Ok(<<>>, <<>>)

\* to_bytes of the constructed parameters
Encode ==
    /\ pc = "params"
    /\ outp' = to_bytes(tx)
    /\ pc' = "encoded"
    /\ UNCHANGED <<value, wire, dec, tx, args>>

\* from_bytes of what to_bytes gave
DecodeEncoded ==
    /\ pc = "encoded"
    /\ IsOk(outp)
    /\ wire' = outp.val
    /\ dec' = from_bytes(outp.val)
    /\ pc' = "roundtrip"
    /\ UNCHANGED <<value, tx, args, outp>>

\* from_bytes of a proper prefix of what to_bytes gave
DecodeTruncated ==
    /\ pc = "encoded"
    /\ IsOk(outp)
    /\ \E k \in 0..(Len(outp.val) - 1) :
         /\ wire' = Take(outp.val, k)
         /\ dec' = from_bytes(Take(outp.val, k))
    /\ pc' = "decoded_truncated"
    /\ UNCHANGED <<value, tx, args, outp>>

\* from_bytes of drawn bytes
Decode ==
    /\ pc = "wire"
    /\ dec' = from_bytes(wire)
    /\ pc' = "decoded"
    /\ UNCHANGED <<value, wire, tx, args, outp>>

\* to_bytes of the decoded transaction
Reencode ==
    /\ pc = "decoded"
    /\ IsOk(dec)
    /\ outp' = to_bytes(dec.val)
    /\ pc' = "reencoded"
    /\ UNCHANGED <<value, wire, dec, tx, args>>

NextCodec == Encode \/ DecodeEncoded \/ DecodeTruncated \/ Decode \/ Reencode

SpecCodec == InitCodec /\ [][NextCodec]_vars

SighashRecoverable(script_sig, sighash_code) ==
    /\ script_sig # <<>>
    /\ script_sig[1] <= 252
    /\ IF script_sig[1] = 0 THEN sighash_code = "SIGHASH_ALL"
       ELSE /\ script_sig[1] < Len(script_sig)
            /\ script_sig[script_sig[1] + 1] = SignatureHash[sighash_code]

\* An input the wire format carries in full: no outpoint address, script,
\* amount or redeem script, no witnesses, a 32-byte id and a 4-byte
\* sequence; unsigned with an empty scriptSig and SIGHASH_ALL, or signed
\* with a scriptSig that gives the sighash code back
WireInputShape(input) ==
    /\ input.outpoint.address = None
    /\ input.outpoint.script_pub_key = None
    /\ input.outpoint.amount = None
    /\ input.outpoint.redeem_script = None
    /\ Len(input.outpoint.reverse_transaction_id) = 32
    /\ Len(input.sequence) = 4
    /\ input.witnesses = <<>>
    /\ IF input.is_signed
         THEN SighashRecoverable(input.script_sig, input.sighash_code)
         ELSE input.script_sig = <<>> /\ input.sighash_code = "SIGHASH_ALL"

RoundTrippable(parameters) ==
    /\ Len(parameters.inputs) >= 1
    /\ ~parameters.segwit_flag
    /\ \A i \in 1..Len(parameters.inputs) :
         WireInputShape(parameters.inputs[i])

C4_WireRoundTrip ==
    pc = "reencoded" => IsOk(outp) /\ outp.val = wire

\* C5: when the first input count is zero and the next byte f is not 1,
\* decoding fails with InvalidSegwitFlag(f); when f is 1 the inputs are read
\* again and a decoded transaction has segwit_flag true; a non-zero first
\* input count gives segwit_flag false.
C5_SegwitMarkerRule ==
    pc \in {"decoded", "roundtrip", "decoded_truncated"}
      /\ Len(wire) >= 6 /\ wire[5] <= 252 =>
        /\ wire[5] = 0 /\ wire[6] # 1 =>
             dec = Err("InvalidSegwitFlag", "", U64(wire[6]))
        /\ wire[5] = 0 /\ wire[6] = 1 =>
             /\ ~(dec.tag = "Err" /\ dec.err.kind = "InvalidSegwitFlag")
             /\ IsOk(dec) =>
                  /\ dec.val.segwit_flag
                  /\ Len(wire) >= 7 /\ wire[7] <= 252 =>
                       Len(dec.val.inputs) = wire[7]
        /\ wire[5] # 0 =>
             /\ ~(dec.tag = "Err" /\ dec.err.kind = "InvalidSegwitFlag")
             /\ IsOk(dec) =>
                  ~dec.val.segwit_flag /\ Len(dec.val.inputs) = wire[5]

C5_Witness ==
    /\ pc = "decoded"
    /\ Len(wire) > 10
    /\ wire[5] = 0
    /\ wire[6] = 2
    /\ dec = Err("InvalidSegwitFlag", "", U64(2))

\* C6: decoding a proper prefix of the serialization of a transaction that
\* decodes in full returns an error.
C6_ShortReadIsError ==
    pc = "decoded_truncated" /\ RoundTrippable(tx) => dec.tag = "Err"

\* C7: from_bytes returns Ok or Err for every input and never panics.
C7_DecodeNeverPanics ==
    pc \in {"decoded", "decoded_truncated", "roundtrip"} => dec.tag # "Panic"

\* a segwit transaction on the wire whose n inputs each carry one witness
\* item of two bytes, written as a length and the bytes: 01 | 02 | cc 01
StandardWitnessWire(s, n, m) ==
    <<2, 0, 0, 0>> \o <<0, 1>> \o <<n>> \o WireInputRun(s, n)
      \o <<m>> \o Concat([i \in 1..m |-> WireOutput])
      \o Concat([i \in 1..n |-> <<1, 2, 204, 1>>]) \o <<4, 3, 2, 1>>

\* C17: for a segwit transaction the decoder reads, for each input in order,
\* one VarInt item count and for each item one VarInt length L and exactly L
\* bytes; the element kept is VarInt(L) followed by those bytes, and an input
\* with a non-empty stack takes its sighash code from the last byte of its
\* first element and is signed.
C17_WitnessDecoding ==
    pc = "decoded" =>
      \A n \in 1..2, m \in 0..1 :
        wire = StandardWitnessWire(1, n, m) =>
          /\ IsOk(dec)
          /\ dec.rest = <<>>
          /\ dec.val.lock_time = from_le_bytes(<<4, 3, 2, 1>>)
          /\ \A i \in 1..n :
               /\ dec.val.inputs[i].witnesses = << <<2, 204, 1>> >>
               /\ dec.val.inputs[i].sighash_code = "SIGHASH_ALL"
               /\ dec.val.inputs[i].is_signed

---------------------------------------------------------------------------
(* The construction specification: the arguments of Outpoint::new and of   *)
(* BitcoinTransactionInput::new are drawn, and each is called once.         *)

\* scriptPubKey arguments: none, well-formed ones of each format, ones that
\* break one structural check of a format, ones that break them all, and
\* ones too short to be indexed
ScriptPubKeyArgs ==
    { None,
      Some(ScriptP2PKH(Hash20A)),
      Some(<<119>> \o Tail(ScriptP2PKH(Hash20A))),
      Some(<<0, 32>> \o Hash32),
      Some(<<0, 32>> \o Take(Hash32, 31)),
      Some(<<1, 33>> \o Take(Hash32, 31)),
      Some(<<OP_HASH160, 20>> \o Hash20B \o <<OP_EQUAL>>),
      Some(<<OP_HASH160, 20>> \o Hash20B \o <<OP_EQUALVERIFY>>),
      Some(<<>>),
      Some(<<7>>) }

OutpointArgs ==
    [transaction_id : {TxidA, Take(TxidB, 31)},
     index : {U32(1)},
     address : {None} \cup {Some(a) : a \in Addresses},
     amount : {None, Some(Amount1)},
     redeem_script : {None, Some(RedeemScript)},
     script_pub_key : ScriptPubKeyArgs]

InitOutpoint ==
    /\ pc = "args"
    /\ args \in OutpointArgs
    /\ outp = Ok(<<>>, <<>>)
    /\ value = U64(0)
    /\ wire = <<>>
    /\ dec = Ok(<<>>, <<>>)
    /\ tx = <<>>

\* Outpoint::new on the drawn arguments
OutpointNew ==
    /\ pc = "args"
    /\ outp' = Outpoint_new(args.transaction_id, args.index, args.address,
                            args.amount, args.redeem_script,
                            args.script_pub_key)
    /\ pc' = "made"
    /\ UNCHANGED <<value, wire, dec, tx, args>>

\* BitcoinTransactionInput::new on the drawn arguments
InputNew ==
    /\ pc = "args"
    /\ outp' = BitcoinTransactionInput_new(args.transaction_id, args.index,
                                           args.address, args.amount,
                                           args.redeem_script,
                                           args.script_pub_key)
    /\ pc' = "input"
    /\ UNCHANGED <<value, wire, dec, tx, args>>

NextOutpoint == OutpointNew \/ InputNew

SpecOutpoint == InitOutpoint /\ [][NextOutpoint]_vars

\* the format of the address argument
ArgFormat == args.address[1].format

\* the redeem-script rule, as the table of formats states it
RedeemRuleBroken ==
    \/ ArgFormat \in {"P2PKH", "Bech32"} /\ IsSome(args.redeem_script)
    \/ ArgFormat \in {"P2WSH", "P2SH_P2WPKH"} /\ ~IsSome(args.redeem_script)

StructureOk(format, spk) ==
    CASE format = "P2PKH" ->
           /\ Len(spk) >= 3
           /\ spk[1] = OP_DUP /\ spk[2] = OP_HASH160
           /\ spk[Len(spk)] = OP_CHECKSIG
      [] format = "P2WSH" -> Len(spk) = 34 /\ spk[1] = 0 /\ spk[2] = 32
      [] format = "P2SH_P2WPKH" ->
           /\ Len(spk) >= 2
           /\ spk[1] = OP_HASH160 /\ spk[Len(spk)] = OP_EQUAL
      [] format = "Bech32" -> TRUE

\* C9: with the redeem-script rule satisfied, construction fails with
\* InvalidScriptPubKey(format) whenever the scriptPubKey given breaks any one
\* of the structural checks of its format.
C9_ScriptPubKeyChecked ==
    pc = "made" /\ IsSome(args.address) /\ ~RedeemRuleBroken
      /\ IsSome(args.script_pub_key)
      /\ ~StructureOk(ArgFormat, args.script_pub_key[1]) =>
        outp = Err("InvalidScriptPubKey", ArgFormat, <<>>)

\* C11: BitcoinTransactionInput::new fails with InvalidTransactionId(len) when
\* the transaction id given is not exactly 32 bytes; an input that results
\* has the id byte-reversed in its outpoint, the sequence ff ff ff ff, the
\* sighash code SIGHASH_ALL, an empty script_sig, no witnesses, and is not
\* signed.
C11_InputConstruction ==
    pc = "input" =>
      /\ Len(args.transaction_id) # 32 =>
           outp = Err("InvalidTransactionId", "",
                      U64(Len(args.transaction_id)))
      /\ Len(args.transaction_id) = 32 =>
           /\ outp.err.kind # "InvalidTransactionId"
           /\ IsOk(outp) =>
                /\ Len(outp.val.outpoint.reverse_transaction_id) = 32
                /\ \A i \in 1..32 :
                     outp.val.outpoint.reverse_transaction_id[i]
                       = args.transaction_id[33 - i]
                /\ outp.val.outpoint.index = args.index
                /\ outp.val.sequence = <<255, 255, 255, 255>>
                /\ outp.val.sighash_code = "SIGHASH_ALL"
                /\ outp.val.script_sig = <<>>
                /\ outp.val.witnesses = <<>>
                /\ outp.val.is_signed = FALSE

C11_Witness ==
    /\ pc = "input"
    /\ args.transaction_id = TxidA
    /\ args.address = Some(AddrP2SH)
    /\ IsOk(outp)
    /\ outp.val.outpoint.reverse_transaction_id[1] = 32
    /\ outp.val.sequence = DEFAULT_SEQUENCE


\* what Outpoint::new stores as given whenever it returns an Outpoint
StoredAsGiven ==
    pc = "made" /\ IsOk(outp) =>
      /\ outp.val.reverse_transaction_id = args.transaction_id
      /\ outp.val.index = args.index
      /\ outp.val.amount = args.amount
      /\ outp.val.address = args.address

\* C23: Outpoint::new called without an address returns an Outpoint that
\* carries the script_pub_key and the redeem_script given, unchanged; the
\* reverse_transaction_id, index and amount are always stored as given.
C23_OutpointKeepsArguments ==
    /\ StoredAsGiven
    /\ pc = "made" /\ ~IsSome(args.address) =>
         /\ IsOk(outp)
         /\ outp.val.script_pub_key = args.script_pub_key
         /\ outp.val.redeem_script = args.redeem_script

---------------------------------------------------------------------------
(* The transaction specification: a transaction is built from constructed  *)
(* inputs or decoded from bytes, and then insert_address, update_outpoint  *)
(* and sign_p2pkh are called on it.  args holds the calls made so far, each *)
(* with the input index and the argument it was given.                     *)

\* how many calls are made on a transaction after it is built or decoded
MaxCalls == 2

\* inputs as BitcoinTransactionInput::new returns them
NewInputs ==
    << PlainA,
       NewInput(TxidB, U32(0), Some(AddrBech32), Some(Amount1), None, None),
       NewInput(TxidA, U32(2), Some(AddrP2WSH), Some(Amount1), Some(RedeemScript), None),
       PlainB,
       NewInput(TxidA, U32(1), Some(AddrP2PKH), Some(Amount1), None, None),
       NewInput(TxidB, U32(3), Some(AddrP2SH), Some(Amount1), Some(RedeemScript), None) >>

NewInputRun(s, n) ==
    [i \in 1..n |-> NewInputs[((s + i - 2) % Len(NewInputs)) + 1]]

\* serialized transactions handed to from_bytes: one legacy input with a
\* P2PKH scriptSig, two unsigned inputs, a segwit transaction with one
\* witness item, one with an empty witness stack, and bytes with a flag byte
\* that is not 1
StartWires ==
    { <<2, 0, 0, 0, 1>> \o WireInput(TxidA, <<3, 48, 170, 1, 1, 204>>)
        \o <<1>> \o WireOutput \o <<0, 0, 0, 0>>,
      <<2, 0, 0, 0, 2>> \o WireInput(TxidA, <<>>) \o WireInput(TxidB, <<>>)
        \o <<1>> \o WireOutput \o <<0, 0, 0, 0>>,
      <<2, 0, 0, 0, 0, 1, 1>> \o WireInput(TxidA, <<>>)
        \o <<1>> \o WireOutput \o <<1, 2, 2, 204, 1>> \o <<0, 0, 0, 0>>,
      <<2, 0, 0, 0, 0, 1, 1>> \o WireInput(TxidB, <<>>)
        \o <<1>> \o WireOutput \o <<0>> \o <<0, 0, 0, 0>>,
      <<2, 0, 0, 0, 0, 2, 1>> \o WireInput(TxidA, <<>>)
        \o <<1>> \o WireOutput \o <<0, 0, 0, 0>> }

\* outpoints as Outpoint::new returns them, for update_outpoint
OutpointSamples ==
    { Outpoint_new(Reverse(TxidA), U32(1), Some(AddrP2PKH), Some(Amount2), None, None).val,
      Outpoint_new(Reverse(TxidA), U32(1), Some(AddrP2WSH), Some(Amount2),
                   Some(RedeemScript), None).val,
      Outpoint_new(Reverse(TxidB), U32(0), Some(AddrP2SH), Some(Amount1),
                   Some(RedeemScript), None).val,
      Outpoint_new(Reverse(TxidA), U32(0), None, Some(Amount1), None, None).val }

\* a call made: its name, the input index and the argument given
Call(name, index, arg) == [name |-> name, index |-> index, arg |-> arg]

Init ==
    /\ pc = "start"
    /\ tx = <<>>
    /\ args = <<>>
    /\ outp = Ok(<<>>, <<>>)
    /\ dec = Ok(<<>>, <<>>)
    /\ wire = <<>>
    /\ value = U64(0)

\* BitcoinTransactionInput::new for each input, then
\* BitcoinTransactionParameters::new
New ==
    /\ pc = "start"
    /\ \E s \in 1..Len(NewInputs), n \in 1..MaxInputs, m \in 0..1 :
         tx' = BitcoinTransactionParameters_new(NewInputRun(s, n),
                                                OutputRun(1, m))
    /\ pc' = "live"
    /\ args' = <<Call("new", 0, <<>>)>>
    /\ UNCHANGED <<value, wire, dec, outp>>

\* BitcoinTransaction::from_bytes: the transaction decoded, or no transaction
FromBytes ==
    /\ pc = "start"
    /\ \E w \in StartWires :
         /\ wire' = w
         /\ dec' = from_bytes(w)
         /\ tx' = IF IsOk(from_bytes(w)) THEN from_bytes(w).val ELSE tx
         /\ pc' = IF IsOk(from_bytes(w)) THEN "live" ELSE "failed"
    /\ args' = <<Call("from_bytes", 0, <<>>)>>
    /\ UNCHANGED <<value, outp>>

\* what a call leaves: the parameters, its return value, and a process that
\* goes on unless the call panicked
Called(call, outcome) ==
    /\ tx' = outcome.tx
    /\ outp' = outcome.ret
    /\ pc' = IF outcome.ret.tag = "Panic" THEN "aborted" ELSE "live"
    /\ args' = Append(args, call)
    /\ UNCHANGED <<value, wire, dec>>

\* BitcoinTransaction::insert_address
InsertAddress ==
    /\ pc = "live"
    /\ Len(args) <= MaxCalls
    /\ \E address \in Addresses \cup {AddrBech32Short},
          index \in 0..Len(tx.inputs) :
         Called(Call("insert_address", index, address),
                insert_address(tx, address, index))

\* BitcoinTransaction::update_outpoint
UpdateOutpoint ==
    /\ pc = "live"
    /\ Len(args) <= MaxCalls
    /\ \E outpoint \in OutpointSamples :
         Called(Call("update_outpoint", 0, <<>>),
                Outcome(update_outpoint(tx, outpoint), Ok(<<>>, <<>>)))

\* BitcoinTransaction::sign_p2pkh
SignP2pkh ==
    /\ pc = "live"
    /\ Len(args) <= MaxCalls
    /\ \E index \in 0..Len(tx.inputs), public_key \in PublicKeys :
         Called(Call("sign_p2pkh", index, public_key),
                sign_p2pkh(tx, Signature1, public_key, index))

\* sequence arguments: one of four bytes, one of three
SequenceArgs == {<<254, 255, 255, 255>>, <<1, 0, 0>>}

\* BitcoinTransactionInput::set_sequence on one input of the transaction
SetSequence ==
    /\ pc = "live"
    /\ Len(args) <= MaxCalls
    /\ \E index \in 0..(Len(tx.inputs) - 1), sequence \in SequenceArgs :
         Called(Call("set_sequence", index, sequence),
                Outcome([tx EXCEPT !.inputs[index + 1] =
                           set_sequence(tx.inputs[index + 1], sequence)],
                        Ok(<<>>, <<>>)))

\* BitcoinTransaction::get_inputs
GetInputs ==
    /\ pc = "live"
    /\ Len(args) <= MaxCalls
    /\ Called(Call("get_inputs", 0, <<>>), Outcome(tx, get_inputs(tx)))

Next ==
    \/ New \/ FromBytes \/ InsertAddress \/ UpdateOutpoint \/ SignP2pkh
    \/ SetSequence \/ GetInputs

Spec == Init /\ [][Next]_vars

\* C10: in every state reached by these calls, every input whose outpoint
\* has an address also has a scriptPubKey and keeps the redeem-script rule
\* of the address format, so that segwit_hash_preimage does not fail with
\* InvalidInputs for a missing redeem script.
C10_OutpointInvariant ==
    pc = "live" =>
      \A i \in 1..Len(tx.inputs) :
        IsSome(tx.inputs[i].outpoint.address) =>
          /\ IsSome(tx.inputs[i].outpoint.script_pub_key)
          /\ IsSome(tx.inputs[i].outpoint.redeem_script)
               = (tx.inputs[i].outpoint.address[1].format
                    \in {"P2WSH", "P2SH_P2WPKH"})
          /\ segwit_script(tx.inputs[i]).err.kind # "InvalidInputs"

\* C12: after sign_p2pkh(signature, public_key, index) the script_sig of the
\* input is VarInt(len(signature) + 1), the signature, the low byte of the
\* input's sighash code, one byte that is the length of the public key, and
\* the public key (for a public key of any length); the input is signed and
\* the bytes returned are to_bytes of the transaction as it now is.
C12_SignP2pkhLayout ==
    pc = "live" /\ Last(args).name = "sign_p2pkh" =>
      LET input == tx.inputs[Last(args).index + 1]
          public_key == Last(args).arg
      IN /\ input.script_sig
              = variable_length_integer(U64(Len(Signature1) + 1))
                  \o Signature1
                  \o <<SignatureHash[input.sighash_code] % 256>>
                  \o <<Len(public_key)>> \o public_key
         /\ input.is_signed
         /\ outp = to_bytes(tx)

---------------------------------------------------------------------------
(* The digest specification: a transaction is drawn as its public fields   *)
(* may stand or decoded from bytes, one input may be signed, and then a    *)
(* preimage or the transaction id is asked for.                            *)

\* inputs of every address format, ones that lack the amount or the
\* scriptPubKey, and one with a scriptPubKey and no address (the input of
\* the tests)
DigestInputs ==
    << PlainA,
       NewInput(TxidA, U32(1), Some(AddrP2PKH), Some(Amount1), None, None),
       NewInput(TxidB, U32(0), Some(AddrBech32), Some(Amount1), None, None),
       NewInput(TxidA, U32(2), Some(AddrP2WSH), Some(Amount2), Some(RedeemScript), None),
       NewInput(TxidB, U32(3), Some(AddrP2SH), Some(Amount1), Some(RedeemScript), None),
       NewInput(TxidB, U32(0), Some(AddrBech32), None, None, None),
       [NewInput(TxidA, U32(4), Some(AddrBech32), Some(Amount1), None, None)
          EXCEPT !.outpoint.script_pub_key = None],
       set_sequence(NewInput(TxidB, U32(0), Some(AddrBech32), Some(Amount2), None, None),
                    <<254, 255, 255, 255>>),
       [PlainB EXCEPT !.witnesses = << <<2, 204, 1>>, <<1, 7>> >>, !.is_signed = TRUE],
       set_sighash(NewInput(TxidA, U32(1), Some(AddrP2PKH), None, None, None),
                   "SIGHASH_ALL_SIGHASH_FORKID"),
       NewInput(TxidA, U32(5), None, Some(Amount1), None, None),
       MkInput(MkOutpoint(Reverse(TxidB), U32(6), Some(Amount1), None,
                          Some(ScriptP2PKH(Hash20A)), None),
               <<>>, DEFAULT_SEQUENCE, "SIGHASH_ALL_SIGHASH_FORKID", <<>>, FALSE) >>

DigestInputRun(s, n) ==
    [i \in 1..n |-> DigestInputs[((s + i - 2) % Len(DigestInputs)) + 1]]

DigestParams ==
    {[BitcoinTransactionParameters_new(DigestInputRun(s, n), OutputRun(1, m))
        EXCEPT !.lock_time = lt] :
       s \in 1..Len(DigestInputs), n \in 1..MaxInputs, m \in 0..MaxOutputs,
       lt \in LockTimes}
    \cup {from_bytes(w).val : w \in {v \in StartWires : IsOk(from_bytes(v))}}

\* sighash types asked for: the plain one, one with FORKID, one with every
\* flag
SighashSamples ==
    {"SIGHASH_ALL", "SIGHASH_SINGLE_SIGHASH_FORKID",
     "SIGHASH_NONE_SIGHASH_FORKID_SIGHASH_ANYONECANPAY"}

InitDigest ==
    /\ pc = "built"
    /\ tx \in DigestParams
    /\ args = <<>>
    /\ outp = Ok(<<>>, <<>>)
    /\ dec = Ok(<<>>, <<>>)
    /\ wire = <<>>
    /\ value = U64(0)

\* BitcoinTransaction::sign_p2pkh on one input of the transaction
DigestSign ==
    /\ pc = "built"
    /\ \E index \in 0..(Len(tx.inputs) - 1) :
         /\ tx' = sign_p2pkh(tx, Signature1, PublicKey1, index).tx
         /\ outp' = sign_p2pkh(tx, Signature1, PublicKey1, index).ret
         /\ args' = <<Call("sign_p2pkh", index, PublicKey1)>>
    /\ pc' = "signed"
    /\ UNCHANGED <<value, wire, dec>>

\* a method that takes &self: what it returns, the transaction as it was
Asked(call, ret) ==
    /\ pc \in {"built", "signed"}
    /\ outp' = ret
    /\ args' = Append(args, call)
    /\ pc' = "asked"
    /\ UNCHANGED <<tx, value, wire, dec>>

\* BitcoinTransaction::p2pkh_hash_preimage
P2pkhHashPreimage ==
    \E vin \in 0..Len(tx.inputs), sighash \in SighashSamples :
      Asked(Call("p2pkh_hash_preimage", vin, sighash),
            p2pkh_hash_preimage(tx, vin, sighash))

\* BitcoinTransaction::segwit_hash_preimage
SegwitHashPreimage ==
    \E vin \in 0..Len(tx.inputs), sighash \in SighashSamples :
      Asked(Call("segwit_hash_preimage", vin, sighash),
            segwit_hash_preimage(tx, vin, sighash))

\* BitcoinTransaction::to_transaction_id
ToTransactionId ==
    Asked(Call("to_transaction_id", 0, <<>>), to_transaction_id(tx))

\* BitcoinTransactionInput::serialize on one input of the transaction
SerializeInput ==
    \E index \in 0..(Len(tx.inputs) - 1), raw \in BOOLEAN :
      Asked(Call("serialize", index, raw),
            BitcoinTransactionInput_serialize(tx.inputs[index + 1], raw))

NextDigest ==
    \/ DigestSign \/ P2pkhHashPreimage \/ SegwitHashPreimage
    \/ ToTransactionId \/ SerializeInput

SpecDigest == InitDigest /\ [][NextDigest]_vars

\* an input as a preimage shows it when it is not the one being signed: the
\* outpoint, an empty script, the sequence
Blanked(input) ==
    input.outpoint.reverse_transaction_id
      \o to_le_bytes(input.outpoint.index) \o <<0>> \o input.sequence

\* the legacy preimage for input vin as the layout gives it, the input at
\* vin being serialized as `own`
LegacyLayout(parameters, vin, own, sighash) ==
    to_le_bytes(parameters.version)
      \o variable_length_integer(U64(Len(parameters.inputs)))
      \o Concat([i \in 1..Len(parameters.inputs) |->
                   IF i = vin + 1 THEN own
                   ELSE Blanked(parameters.inputs[i])])
      \o variable_length_integer(U64(Len(parameters.outputs)))
      \o SerializeOutputs(parameters.outputs)
      \o to_le_bytes(parameters.lock_time)
      \o <<SignatureHash[sighash], 0, 0, 0>>

\* sign_p2pkh applied to input j of the transaction
OtherSigned(parameters, j) ==
    sign_p2pkh(parameters, Signature1, PublicKey1, j).tx

AskedInput == tx.inputs[Last(args).index + 1]

\* the script of the input's format is there to be taken
ScriptAvailable(input) ==
    /\ IsSome(input.outpoint.address)
    /\ CASE input.outpoint.address[1].format = "Bech32" ->
              /\ IsSome(input.outpoint.script_pub_key)
              /\ input.outpoint.script_pub_key[1] # <<>>
         [] input.outpoint.address[1].format = "P2WSH" ->
              IsSome(input.outpoint.redeem_script)
         [] input.outpoint.address[1].format = "P2SH_P2WPKH" ->
              /\ IsSome(input.outpoint.redeem_script)
              /\ input.outpoint.redeem_script[1] # <<>>
         [] input.outpoint.address[1].format = "P2PKH" -> FALSE

\* what segwit_hash_preimage returns for an input that lacks something
SegwitErrorOutcomes ==
    pc = "asked" /\ Last(args).name = "segwit_hash_preimage"
      /\ Last(args).index < Len(tx.inputs) =>
      /\ ~IsSome(AskedInput.outpoint.address) =>
           outp = Err("MissingOutpointAddress", "", <<>>)
      /\ IsSome(AskedInput.outpoint.address) =>
           /\ AskedInput.outpoint.address[1].format = "P2PKH" =>
                outp = Err("UnsupportedPreimage", "P2PKH", <<>>)
           /\ AskedInput.outpoint.address[1].format = "Bech32"
                /\ ~IsSome(AskedInput.outpoint.script_pub_key) =>
                outp = Err("MissingOutpointScriptPublicKey", "", <<>>)
      /\ ~IsSome(AskedInput.outpoint.amount) =>
           /\ ~IsOk(outp)
           /\ ScriptAvailable(AskedInput) =>
                outp = Err("MissingOutpointAmount", "", <<>>)

LayoutScriptCode(input) ==
    CASE input.outpoint.address[1].format = "P2WSH" ->
           input.outpoint.redeem_script[1]
      [] input.outpoint.address[1].format = "Bech32" ->
           <<118, 169>> \o Tail(input.outpoint.script_pub_key[1])
             \o <<136, 172>>
      [] input.outpoint.address[1].format = "P2SH_P2WPKH" ->
           <<118, 169>> \o Tail(input.outpoint.redeem_script[1])
             \o <<136, 172>>

\* a 64-bit amount (four limbs) as 8 bytes, least significant first
AmountLE(a) ==
    <<a[4] % 256, a[4] \div 256, a[3] % 256, a[3] \div 256,
      a[2] % 256, a[2] \div 256, a[1] % 256, a[1] \div 256>>

\* the BIP-143 preimage for an input as the layout gives it
SegwitLayout(parameters, input, sighash) ==
    to_le_bytes(parameters.version)
      \o double_sha2(Concat([i \in 1..Len(parameters.inputs) |->
                               Take(Blanked(parameters.inputs[i]), 36)]))
      \o double_sha2(Concat([i \in 1..Len(parameters.inputs) |->
                               parameters.inputs[i].sequence]))
      \o Take(Blanked(input), 36)
      \o variable_length_integer(U64(Len(LayoutScriptCode(input))))
      \o LayoutScriptCode(input)
      \o AmountLE(input.outpoint.amount[1])
      \o input.sequence
      \o double_sha2(SerializeOutputs(parameters.outputs))
      \o to_le_bytes(parameters.lock_time)
      \o <<SignatureHash[sighash], 0, 0, 0>>

PlainLayout(parameters) ==
    to_le_bytes(parameters.version)
      \o variable_length_integer(U64(Len(parameters.inputs)))
      \o Concat([i \in 1..Len(parameters.inputs) |->
                   Take(Blanked(parameters.inputs[i]), 36)
                     \o serialized_script(parameters.inputs[i], FALSE).val
                     \o parameters.inputs[i].sequence])
      \o variable_length_integer(U64(Len(parameters.outputs)))
      \o SerializeOutputs(parameters.outputs)
      \o to_le_bytes(parameters.lock_time)

\* the transaction with the given witness stack on every input and the
\* segwit flag set as given
WithWitnesses(parameters, witnesses, flag) ==
    [parameters EXCEPT
       !.segwit_flag = flag,
       !.inputs = [i \in 1..Len(parameters.inputs) |->
                     [parameters.inputs[i] EXCEPT !.witnesses = witnesses]]]

\* the transaction with the script_sig of input index emptied
WithoutScriptSig(parameters, index) ==
    [parameters EXCEPT !.inputs[index + 1].script_sig = <<>>]

\* C16: the txid that to_transaction_id returns is the reversed hash of the
\* non-witness serialization of the transaction as it now is: version, each
\* input's outpoint, script field and sequence, the outputs and lock_time.
\* Transactions that differ only in witnesses and segwit_flag have the same
\* txid, and a txid asked for after sign_p2pkh is over the new script_sig.
C16_TxidNonWitness ==
    pc = "asked" /\ Last(args).name = "to_transaction_id" /\ IsOk(outp) =>
      /\ outp.val.txid = Reverse(double_sha2(PlainLayout(tx)))
      /\ \A flag \in BOOLEAN, witnesses \in {<<>>, << <<1, 7>> >>} :
           /\ IsOk(to_transaction_id(WithWitnesses(tx, witnesses, flag)))
           /\ to_transaction_id(WithWitnesses(tx, witnesses, flag)).val.txid
                = outp.val.txid
      /\ Len(args) = 2 =>
           /\ tx.inputs[args[1].index + 1].script_sig
                = p2pkh_script_sig(Signature1,
                                   tx.inputs[args[1].index + 1].sighash_code,
                                   args[1].arg)
           /\ IsOk(to_transaction_id(WithoutScriptSig(tx, args[1].index))) =>
                to_transaction_id(WithoutScriptSig(tx, args[1].index)).val.txid
                  # outp.val.txid

C16_Witness ==
    /\ pc = "asked"
    /\ Last(args).name = "to_transaction_id"
    /\ Len(args) = 2
    /\ args[1].index = 1
    /\ Len(tx.inputs) = 2
    /\ tx.inputs[1].witnesses # <<>>
    /\ tx.inputs[2].script_sig # <<>>
    /\ IsOk(outp)
    /\ outp.val.txid # outp.val.wtxid

\* some input carries a witness
CarriesWitness(parameters) ==
    \E i \in 1..Len(parameters.inputs) :
      parameters.inputs[i].witnesses # <<>>

\* what to_bytes gives when the marker and the witness section go together
ConsistentBytes(parameters, segwit) ==
    to_le_bytes(parameters.version)
      \o (IF segwit THEN <<0, 1>> ELSE <<>>)
      \o variable_length_integer(U64(Len(parameters.inputs)))
      \o SerializeInputs(parameters.inputs,
                         RawInToBytes(parameters.inputs)).val
      \o variable_length_integer(U64(Len(parameters.outputs)))
      \o SerializeOutputs(parameters.outputs)
      \o (IF segwit THEN SerializeWitnesses(parameters.inputs) ELSE <<>>)
      \o to_le_bytes(parameters.lock_time)

\* C18: in what to_bytes gives, the 00 01 pair after the version is there
\* exactly when the witness section is there, that is when some input
\* carries a witness; segwit_flag is true exactly when some input carries a
\* witness, in every transaction built by BitcoinTransactionParameters::new
\* or from_bytes and changed by the mutating operations.
C18_MarkerWitnessConsistency ==
    pc = "live" =>
      /\ tx.segwit_flag = CarriesWitness(tx)
      /\ IsOk(to_bytes(tx)) =>
           to_bytes(tx).val = ConsistentBytes(tx, CarriesWitness(tx))

\* an input's serialization with the script field given
WithScriptField(input, field) ==
    Ok(input.outpoint.reverse_transaction_id
         \o to_le_bytes(input.outpoint.index) \o field \o input.sequence,
       <<>>)

\* a byte string with its VarInt length before it
Prefixed(bytes) == variable_length_integer(U64(Len(bytes))) \o bytes

\* C19: serialize(raw) gives reversed txid, index (4 bytes little-endian),
\* script field, sequence, where the script field is 0x00 when raw; else the
\* length-prefixed script_sig when that is not empty; else 0x00 when the
\* address format is Bech32 or P2WSH; else, in every case that remains (an
\* outpoint with a scriptPubKey and no address among them), the
\* length-prefixed scriptPubKey of the outpoint.
C19_InputSerialization ==
    pc = "asked" /\ Last(args).name = "serialize" =>
      IF Last(args).arg
        THEN outp = WithScriptField(AskedInput, <<0>>)
      ELSE IF AskedInput.script_sig # <<>>
        THEN outp = WithScriptField(AskedInput,
                                    Prefixed(AskedInput.script_sig))
      ELSE IF /\ IsSome(AskedInput.outpoint.address)
              /\ AskedInput.outpoint.address[1].format \in {"Bech32", "P2WSH"}
        THEN outp = WithScriptField(AskedInput, <<0>>)
      ELSE IsSome(AskedInput.outpoint.script_pub_key) =>
             outp = WithScriptField(
                      AskedInput,
                      Prefixed(AskedInput.outpoint.script_pub_key[1]))

\* C20: in every state reached by BitcoinTransactionInput::new,
\* BitcoinTransactionInput::read, set_sequence, sign_p2pkh, insert_address
\* and update_outpoint, every input's sequence is exactly 4 bytes, so a
\* serialized input has length 36 + script field + 4 and get_inputs reads
\* its 4 sequence bytes.
C20_SequenceWidth ==
    /\ pc = "live" =>
         \A i \in 1..Len(tx.inputs) :
           /\ Len(tx.inputs[i].sequence) = 4
           /\ IsOk(BitcoinTransactionInput_serialize(tx.inputs[i], FALSE)) =>
                Len(BitcoinTransactionInput_serialize(tx.inputs[i], FALSE).val)
                  = 36 + Len(serialized_script(tx.inputs[i], FALSE).val) + 4
    /\ ~(pc = "aborted" /\ Last(args).name = "get_inputs")

\* an input with the two fields that signing writes put aside
Unsigned(input) == [input EXCEPT !.script_sig = <<>>, !.is_signed = FALSE]

\* sign_p2pkh with the signature and key of the digest specification
SignAt(parameters, index) ==
    sign_p2pkh(parameters, Signature1, PublicKey1, index)

\* what a sign_p2pkh step on input `index` leaves alone, and what signing
\* another input before or after it, or the same input again, comes to
SignFrame(before, after, ret, index) ==
    /\ after.version = before.version
    /\ after.lock_time = before.lock_time
    /\ after.segwit_flag = before.segwit_flag
    /\ after.outputs = before.outputs
    /\ Len(after.inputs) = Len(before.inputs)
    /\ \A i \in 1..Len(before.inputs) :
         IF i = index + 1
           THEN /\ Unsigned(after.inputs[i]) = Unsigned(before.inputs[i])
                /\ after.inputs[i].is_signed
           ELSE after.inputs[i] = before.inputs[i]
    /\ SignAt(after, index) = Outcome(after, ret)
    /\ \A j \in 0..(Len(before.inputs) - 1) :
         j # index =>
           SignAt(after, j) = SignAt(SignAt(before, j).tx, index)

\* C21: sign_p2pkh(sig, pk, i) changes only the script_sig and is_signed of
\* input i and leaves version, lock_time, segwit_flag, the outputs, every
\* other input and the outpoint, sequence, sighash_code and witnesses of
\* input i as they were; signing two inputs in either order gives the same
\* transaction and the same bytes, and the same call made again changes
\* nothing.
C21_SignFrame ==
    [][pc' = "signed" => SignFrame(tx, tx', outp', args'[1].index)]_vars

C21_Witness ==
    /\ pc = "signed"
    /\ Len(tx.inputs) = 2
    /\ args[1].index = 0
    /\ tx.inputs[1].is_signed
    /\ ~tx.inputs[2].is_signed
    /\ IsSome(tx.inputs[2].outpoint.address)
    /\ IsOk(outp)
    /\ SignAt(tx, 1).ret # outp

---------------------------------------------------------------------------
(* The signing specification: a transaction without witnesses is built,    *)
(* every input is signed with sign_p2pkh, and the bytes it gives are       *)
(* decoded.                                                                *)

\* a signature of 252 bytes: with the sighash byte, 253 bytes to push
Signature252 == [i \in 1..252 |-> (i * 5 + 48) % 256]

Signatures == {Signature1, Signature252}

\* inputs as BitcoinTransactionInput::new, set_sighash and set_sequence leave
\* them
SignInputs ==
    << PlainA,
       set_sighash(PlainB, "SIGHASH_ALL_SIGHASH_FORKID"),
       NewInput(TxidA, U32(1), Some(AddrP2PKH), Some(Amount1), None, None),
       set_sequence(set_sighash(PlainB, "SIGHASH_NONE_SIGHASH_ANYONECANPAY"),
                    <<254, 255, 255, 255>>) >>

SignInputRun(s, n) ==
    [i \in 1..n |-> SignInputs[((s + i - 2) % Len(SignInputs)) + 1]]

InitSign ==
    /\ pc = "signing"
    /\ tx \in {[BitcoinTransactionParameters_new(SignInputRun(s, n),
                                                 OutputRun(1, m))
                  EXCEPT !.lock_time = lt] :
                 s \in 1..Len(SignInputs), n \in 1..MaxInputs,
                 m \in 0..MaxOutputs, lt \in LockTimes}
    /\ args = <<>>
    /\ outp = Ok(<<>>, <<>>)
    /\ dec = Ok(<<>>, <<>>)
    /\ wire = <<>>
    /\ value = U64(0)

\* BitcoinTransaction::sign_p2pkh on an input not yet signed
SignUnsigned ==
    /\ pc = "signing"
    /\ \E index \in 0..(Len(tx.inputs) - 1), signature \in Signatures :
         /\ ~tx.inputs[index + 1].is_signed
         /\ tx' = sign_p2pkh(tx, signature, PublicKey1, index).tx
         /\ outp' = sign_p2pkh(tx, signature, PublicKey1, index).ret
    /\ UNCHANGED <<pc, args, value, wire, dec>>

\* to_bytes of the transaction once every input is signed
EncodeSigned ==
    /\ pc = "signing"
    /\ \A i \in 1..Len(tx.inputs) : tx.inputs[i].is_signed
    /\ outp' = to_bytes(tx)
    /\ pc' = "signed_bytes"
    /\ UNCHANGED <<tx, args, value, wire, dec>>

\* from_bytes of those bytes
DecodeSigned ==
    /\ pc = "signed_bytes"
    /\ IsOk(outp)
    /\ wire' = outp.val
    /\ dec' = from_bytes(outp.val)
    /\ pc' = "signed_decoded"
    /\ UNCHANGED <<tx, args, value, outp>>

NextSign == SignUnsigned \/ EncodeSigned \/ DecodeSigned

SpecSign == InitSign /\ [][NextSign]_vars

\* C22: for a transaction without witnesses in which every input has been
\* signed with sign_p2pkh, from_bytes(to_bytes()) succeeds and each decoded
\* input has the script_sig, sequence, reversed txid and index of the signed
\* one, is signed, and has the sighash code it was signed under, whatever
\* the length of the signature.
C22_SignEncodeDecode ==
    /\ pc = "signed_bytes" => IsOk(outp)
    /\ pc = "signed_decoded" =>
         /\ IsOk(dec)
         /\ Len(dec.val.inputs) = Len(tx.inputs)
         /\ \A i \in 1..Len(tx.inputs) :
              /\ dec.val.inputs[i].script_sig = tx.inputs[i].script_sig
              /\ dec.val.inputs[i].sequence = tx.inputs[i].sequence
              /\ dec.val.inputs[i].outpoint.reverse_transaction_id
                   = tx.inputs[i].outpoint.reverse_transaction_id
              /\ dec.val.inputs[i].outpoint.index
                   = tx.inputs[i].outpoint.index
              /\ dec.val.inputs[i].is_signed
              /\ dec.val.inputs[i].sighash_code = tx.inputs[i].sighash_code

---------------------------------------------------------------------------
(* insert_address as one step *)

\* the parameters with the address and the script of one input replaced
WithAddress(parameters, index, address, script) ==
    [parameters EXCEPT !.inputs[index + 1].outpoint.address = Some(address),
                       !.inputs[index + 1].outpoint.script_pub_key = Some(script)]

\* what a call insert_address(address, index) may do to the transaction
AllOrNothing(before, after, ret, address, index) ==
    \/ /\ IsOk(ret)
       /\ IsOk(create_script_pub_key(address))
       /\ after = WithAddress(before, index, address,
                              create_script_pub_key(address).val)
    \/ /\ ret.tag = "Err"
       /\ after = before

\* C24: a call insert_address(address, index) on an input of the transaction
\* either succeeds, and then the input has the address and the script
\* derived from it and nothing else has changed, or returns an error, and
\* then the transaction is as it was.
C24_InsertAddressAllOrNothing ==
    [][pc = "live" /\ Len(args') = Len(args) + 1
         /\ Last(args').name = "insert_address"
         /\ Last(args').index < Len(tx.inputs)
       => AllOrNothing(tx, tx', outp', Last(args').arg, Last(args').index)]_vars

\* the successful half of C24 alone
InsertAddressSucceeds ==
    [][pc = "live" /\ Len(args') = Len(args) + 1
         /\ Last(args').name = "insert_address"
         /\ Last(args').index < Len(tx.inputs)
         /\ IsOk(outp')
       => AllOrNothing(tx, tx', outp', Last(args').arg, Last(args').index)]_vars

=============================================================================
